---- MODULE Spec2Model ----
(***************************************************************************)
(* Model of Py6S/sixs.py: the SixS wrapper class.                          *)
(*                                                                         *)
(* Text (Python str) is a sequence of one-character strings, "\n" being    *)
(* the line break.  Numbers given to "%f" are integers counting millionths *)
(* (0.5 is 500000), the precision "%f" prints.  Python's None is the       *)
(* string "None".                                                          *)
(***************************************************************************)
EXTENDS Integers, Sequences, FiniteSets, TLC

VARIABLES
    environ,        \* os.environ: variable name -> value, PATH split at os.pathsep
    fs,             \* the file system seen by is_exe: path -> absent / file / exec
    explicit,       \* explicit[s]: the path argument given to SixS(path)
    sixs_path,      \* self.sixs_path
    params,         \* the parameter objects of the scenario, by their renderings
    aot550,         \* self.aot550
    visibility,     \* self.visibility
    outputs,        \* self.outputs
    pc,             \* where each scenario's caller is inside its call
    call,           \* the call in progress or, when idle, the last one made
    files,          \* the working directory: file name -> text, or Absent
    process,        \* the child process of the run in progress
    raised,         \* the exception the scenario's last call ended with
    serialized      \* whether the callers serialize their runs

vars == <<environ, fs, explicit, sixs_path, params, aot550, visibility,
          outputs, pc, call, files, process, raised, serialized>>

----------------------------------------------------------------------------
(* Python values: every value carries its type *)

None == [type |-> "NoneType"]

\* a str; its value is a path (locator) or a sequence of characters (text)
Str(v) == [type |-> "str", value |-> v]

\* a float, held as a whole number of millionths
Float(micro) == [type |-> "float", micro |-> micro]

\* an exception on its way up the stack
Raise(exception, args) == [type |-> "raise", exception |-> exception, args |-> args]

IsRaise(v) == v.type = "raise"

\* an attribute not assigned yet
Unbound == [type |-> "unbound"]

NL == "\n"

----------------------------------------------------------------------------
(* Bounds *)

\* longest PATH (number of entries) the locator is tried on
MaxPathLen == 2

----------------------------------------------------------------------------
(* Executable locator: find_path, which, is_exe *)

\* the candidate names, in the order find_path tries them
Candidates == <<"sixs.exe", "sixs", "sixsV1.1", "sixsV1.1.exe">>

\* directories a PATH entry can name; "" is the empty entry
Dirs == {"", "/opt/6s"}

\* os.path.join(path, program) for a program name without directory part
Join(path, program) == IF path = "" THEN program ELSE path \o "/" \o program

\* os.path.split(program)[0]: the four candidates have no directory part
DirPart(program) == ""

AllFiles == {Join(d, Candidates[i]) : d \in Dirs, i \in 1..Len(Candidates)}

exists(fpath) == fs[fpath] # "absent"

access_X_OK(fpath) == fs[fpath] = "exec"

is_exe(fpath) == exists(fpath) /\ access_X_OK(fpath)

\* the for loop with its early return: the first index from..Len(hits) that
\* hits, or 0 when the loop runs to its end
RECURSIVE FirstFrom(_, _)
FirstFrom(hits, from) ==
    IF from > Len(hits) THEN 0
    ELSE IF hits[from] THEN from
    ELSE FirstFrom(hits, from + 1)

\* which(program); os.environ["PATH"] raises KeyError when PATH is not set
which(program) ==
    IF DirPart(program) # ""
    THEN IF is_exe(program) THEN Str(program) ELSE None
    ELSE IF "PATH" \notin DOMAIN environ THEN Raise("KeyError", <<"PATH">>)
    ELSE LET entries == environ["PATH"]
             i == FirstFrom([k \in 1..Len(entries) |->
                                 is_exe(Join(entries[k], program))], 1)
         IN  IF i = 0 THEN None ELSE Str(Join(entries[i], program))

\* a or b or c or d over the results of which, None being the only falsy one;
\* an exception raised by one operand ends the evaluation
RECURSIVE OrChain(_, _)
OrChain(names, k) ==
    LET r == which(names[k])
    IN  IF k = Len(names) THEN r
        ELSE IF r # None THEN r
        ELSE OrChain(names, k + 1)

\* a locator that walks the PATH entries first and the names second
find_path_by_entry(path) ==
    IF path # None THEN path
    ELSE IF "PATH" \notin DOMAIN environ THEN Raise("KeyError", <<"PATH">>)
    ELSE LET entries == environ["PATH"]
             pairs == [k \in 1..(Len(entries) * Len(Candidates)) |->
                          Join(entries[((k - 1) \div Len(Candidates)) + 1],
                               Candidates[((k - 1) % Len(Candidates)) + 1])]
             i == FirstFrom([k \in 1..Len(pairs) |-> is_exe(pairs[k])], 1)
         IN  IF i = 0 THEN None ELSE Str(pairs[i])

find_path(path) ==
    IF path # None THEN path
    ELSE OrChain(Candidates, 1)

----------------------------------------------------------------------------
(* Text formatting *)

Digit(d) == <<"0", "1", "2", "3", "4", "5", "6", "7", "8", "9">>[d + 1]

\* the decimal digits of a natural number
RECURSIVE Digits(_)
Digits(n) == IF n < 10 THEN <<Digit(n)>> ELSE Digits(n \div 10) \o <<Digit(n % 10)>>

\* "%f" % x: sign, integer part, a dot and six decimals
FormatF(x) ==
    LET m == IF x.micro < 0 THEN -x.micro ELSE x.micro
        frac == m % 1000000
    IN  (IF x.micro < 0 THEN <<"-">> ELSE <<>>)
        \o Digits(m \div 1000000) \o <<".">>
        \o [i \in 1..6 |-> Digit((frac \div (10 ^ (6 - i))) % 10)]

\* a + b on Python values: an exception already raised propagates, str + str
\* concatenates, anything else is a TypeError
Add(a, b) ==
    IF IsRaise(a) THEN a
    ELSE IF IsRaise(b) THEN b
    ELSE IF a.type = "str" /\ b.type = "str" THEN Str(a.value \o b.value)
    ELSE Raise("TypeError", <<"cannot concatenate 'str' and '" \o b.type \o "' objects">>)

----------------------------------------------------------------------------
(* Input file builder: the create_*_lines methods *)

UserProfile == "UserProfile"
PredefinedType == "PredefinedType"

create_geom_lines(s) == Str(params[s].geometry)

create_atmos_aero_lines(s) ==
    Str(params[s].atmos_profile \o <<NL>> \o params[s].aero_profile.text \o <<NL>>)

\* neither field set: an empty section instead of the ParameterError
create_aot_vis_lines_silent(s) ==
    IF params[s].aero_profile.class # UserProfile
    THEN IF aot550[s] # None
         THEN Str(<<"0", NL>> \o FormatF(aot550[s])
                  \o <<" ", "v", "a", "l", "u", "e", NL>>)
         ELSE IF visibility[s] # None
         THEN Str(FormatF(visibility[s]) \o <<NL>>)
         ELSE Str(<<>>)
    ELSE None

\* both fields set: a ParameterError instead of the aot550 lines
create_aot_vis_lines_exclusive(s) ==
    IF params[s].aero_profile.class # UserProfile
    THEN IF aot550[s] # None /\ visibility[s] # None
         THEN Raise("ParameterError",
                    <<"aot550", "You must set either the AOT at 550nm or the Visibility in km.">>)
         ELSE IF aot550[s] # None
         THEN Str(<<"0", NL>> \o FormatF(aot550[s])
                  \o <<" ", "v", "a", "l", "u", "e", NL>>)
         ELSE IF visibility[s] # None
         THEN Str(FormatF(visibility[s]) \o <<NL>>)
         ELSE Raise("ParameterError",
                    <<"aot550", "You must set either the AOT at 550nm or the Visibility in km.">>)
    ELSE None

\* the aot550 lines without the leading "0" line
create_aot_vis_lines_oneline(s) ==
    IF params[s].aero_profile.class # UserProfile
    THEN IF aot550[s] # None
         THEN Str(FormatF(aot550[s]) \o <<" ", "v", "a", "l", "u", "e", NL>>)
         ELSE IF visibility[s] # None
         THEN Str(FormatF(visibility[s]) \o <<NL>>)
         ELSE Raise("ParameterError",
                    <<"aot550", "You must set either the AOT at 550nm or the Visibility in km.">>)
    ELSE None

create_aot_vis_lines(s) ==
    IF params[s].aero_profile.class # UserProfile
    THEN IF aot550[s] # None
         THEN Str(<<"0", NL>> \o FormatF(aot550[s])
                  \o <<" ", "v", "a", "l", "u", "e", NL>>)
         ELSE IF visibility[s] # None
         THEN Str(FormatF(visibility[s]) \o <<NL>>)
         ELSE Raise("ParameterError",
                    <<"aot550", "You must set either the AOT at 550nm or the Visibility in km.">>)
    ELSE None

create_elevation_lines(s) ==
    Str(<<"0", " ", "(", "t", "a", "r", "g", "e", "t", " ", "l", "e", "v", "e", "l", ")", NL,
          "0", " ", "(", "s", "e", "n", "s", "o", "r", " ", "l", "e", "v", "e", "l", ")", NL>>)

create_wavelength_lines(s) == Str(params[s].wavelength)

create_surface_lines(s) == Str(params[s].ground_reflectance)

create_atmos_corr_lines(s) == Str(params[s].atmos_corr)

\* the builder with the wavelength lines ahead of the elevation lines
input_file_reordered(s) ==
    LET l1 == create_geom_lines(s)
        l2 == Add(l1, create_atmos_aero_lines(s))
        l3 == Add(l2, create_aot_vis_lines(s))
        l4 == Add(l3, create_wavelength_lines(s))
        l5 == Add(l4, create_elevation_lines(s))
        l6 == Add(l5, create_surface_lines(s))
        l7 == Add(l6, create_atmos_corr_lines(s))
    IN  l7

\* the body of the with block of write_input_file, up to f.write: the text
\* handed to f.write, or the exception that ends the block
input_file(s) ==
    LET l1 == create_geom_lines(s)
        l2 == Add(l1, create_atmos_aero_lines(s))
        l3 == Add(l2, create_aot_vis_lines(s))
        l4 == Add(l3, create_elevation_lines(s))
        l5 == Add(l4, create_wavelength_lines(s))
        l6 == Add(l5, create_surface_lines(s))
        l7 == Add(l6, create_atmos_corr_lines(s))
    IN  l7

----------------------------------------------------------------------------
(* The external program and the result object *)

\* the report 6S prints for an input document: a function of what it read
SixSReport(stdin) == <<"6S", ":">> \o stdin

\* what 6S prints on standard error when it ends with returncode rc
SixSErrors(rc) == IF rc = 0 THEN <<>> ELSE <<"w", "a", "r", "n", NL>>

\* the return codes the child can end with
ReturnCodes == {0, 1}

\* Outputs(stdout, stderr)
Outputs(stdout, stderr) == [type |-> "Outputs", stdout |-> stdout, stderr |-> stderr]

----------------------------------------------------------------------------
(* State *)

Scenarios == DOMAIN pc

TmpIn == "tmp_in.txt"

NoFile == [exists |-> FALSE, data |-> <<>>]
File(data) == [exists |-> TRUE, data |-> data]

NoProcess == [state |-> "none"]

NoCall == [method |-> "none", filename |-> ""]
Call(method, filename) == [method |-> method, filename |-> filename]

\* the file names write_input_file is called with
Filenames == {TmpIn, "scene.txt"}

\* the parameter objects of scenario s; the sections in `empty` render to ""
Sections == {"geometry", "atmos_profile", "aero_profile", "wavelength",
             "ground_reflectance", "atmos_corr"}

Rendering(section, text, empty) == IF section \in empty THEN <<>> ELSE text

AeroProfiles ==
    {[class |-> PredefinedType, text |-> <<"E">>], [class |-> UserProfile, text |-> <<"U">>]}

ParamObjects(s, empty) ==
    [geometry           |-> Rendering("geometry", <<"G", Digit(s), NL>>, empty),
     atmos_profile      |-> Rendering("atmos_profile", <<"A">>, empty),
     aero_profile       |-> [class |-> PredefinedType,
                             text  |-> Rendering("aero_profile", <<"E">>, empty)],
     wavelength         |-> Rendering("wavelength", <<"W", NL>>, empty),
     ground_reflectance |-> Rendering("ground_reflectance", <<"S", NL>>, empty),
     atmos_corr         |-> Rendering("atmos_corr", <<"C", NL>>, empty)]

AotValues == {Float(0), Float(500000)}
VisValues == {Float(23000000)}

\* __init__ for the scenarios S, each with the path argument and the parameter
\* objects chosen for it
Constructed(S, paths, empties) ==
    /\ explicit \in [S -> paths]
    /\ sixs_path = [s \in S |-> find_path(explicit[s])]
    /\ \A s \in S : ~IsRaise(sixs_path[s])
    /\ \E e \in [S -> empties] : params = [s \in S |-> ParamObjects(s, e[s])]
    /\ aot550 = [s \in S |-> Float(500000)]
    /\ visibility = [s \in S |-> None]
    /\ outputs = [s \in S |-> None]
    /\ pc = [s \in S |-> "idle"]
    /\ call = [s \in S |-> NoCall]
    /\ process = [s \in S |-> NoProcess]
    /\ raised = [s \in S |-> None]
    /\ files = [n \in Filenames |-> NoFile]

\* SixS(path): __init__ on a new object
Construct(s) ==
    /\ pc[s] = "new"
    /\ LET found == find_path(explicit[s])
       IN  IF IsRaise(found)
           THEN /\ raised' = [raised EXCEPT ![s] = found]
                /\ pc' = [pc EXCEPT ![s] = "failed"]
                /\ UNCHANGED <<sixs_path, aot550, visibility>>
           ELSE /\ sixs_path' = [sixs_path EXCEPT ![s] = found]
                /\ aot550' = [aot550 EXCEPT ![s] = Float(500000)]
                /\ visibility' = [visibility EXCEPT ![s] = None]
                /\ pc' = [pc EXCEPT ![s] = "idle"]
                /\ UNCHANGED raised
    /\ UNCHANGED <<environ, fs, explicit, params, outputs, call, files, process,
                   serialized>>

----------------------------------------------------------------------------
(* Attribute assignments by the caller, between calls *)

SetAot550(s, v) ==
    /\ pc[s] = "idle"
    /\ aot550[s] # v
    /\ aot550' = [aot550 EXCEPT ![s] = v]
    /\ UNCHANGED <<environ, fs, explicit, sixs_path, params, visibility, outputs,
                   pc, call, files, process, raised, serialized>>

SetVisibility(s, v) ==
    /\ pc[s] = "idle"
    /\ visibility[s] # v
    /\ visibility' = [visibility EXCEPT ![s] = v]
    /\ UNCHANGED <<environ, fs, explicit, sixs_path, params, aot550, outputs,
                   pc, call, files, process, raised, serialized>>

SetAeroProfile(s, p) ==
    /\ pc[s] = "idle"
    /\ params[s].aero_profile # p
    /\ params' = [params EXCEPT ![s].aero_profile = p]
    /\ UNCHANGED <<environ, fs, explicit, sixs_path, aot550, visibility, outputs,
                   pc, call, files, process, raised, serialized>>

----------------------------------------------------------------------------
(* run, step by step *)

\* an open that creates the file but keeps what it holds
OpenW_keep(filename) ==
    [files EXCEPT ![filename] = File(files[filename].data)]

\* an open put off until the text is built: nothing happens to the file yet
OpenW_lazy(filename) == files

\* open(filename, "w"): the file is created or truncated
OpenW(filename) == [files EXCEPT ![filename] = File(<<>>)]

\* f.write(text) and the close at the end of the with block: the text goes
\* to offset 0 of whatever the file holds by then
WriteAt0(old, text) == text \o SubSeq(old, Len(text) + 1, Len(old))

\* write_input_file(filename) called by the caller itself, up to the open()
WriteInputFileOpen(s, filename) ==
    /\ pc[s] = "idle"
    /\ serialized => \A o \in Scenarios \ {s} : pc[o] = "idle"
    /\ files' = OpenW(filename)
    /\ pc' = [pc EXCEPT ![s] = "opened"]
    /\ call' = [call EXCEPT ![s] = Call("write_input_file", filename)]
    /\ raised' = [raised EXCEPT ![s] = None]
    /\ UNCHANGED <<environ, fs, explicit, sixs_path, params, aot550, visibility,
                   outputs, process, serialized>>

\* a run that does not look at sixs_path
ExecutableMissing_never(s) == FALSE

\* if self.sixs_path == None
ExecutableMissing(s) == sixs_path[s] = None

\* run up to the open() in write_input_file("tmp_in.txt")
RunOpen(s) ==
    /\ pc[s] = "idle"
    /\ serialized => \A o \in Scenarios \ {s} : pc[o] = "idle"
    /\ call' = [call EXCEPT ![s] = Call("run", TmpIn)]
    /\ IF ExecutableMissing(s)
       THEN /\ raised' = [raised EXCEPT ![s] =
                             Raise("ExecutionError", <<"6S executable not found.">>)]
            /\ UNCHANGED <<pc, files>>
       ELSE /\ files' = OpenW(TmpIn)
            /\ pc' = [pc EXCEPT ![s] = "opened"]
            /\ raised' = [raised EXCEPT ![s] = None]
    /\ UNCHANGED <<environ, fs, explicit, sixs_path, params, aot550, visibility,
                   outputs, process, serialized>>

\* the with block of write_input_file: build the text, write it, close; an
\* exception ends the call, and so does the return to a caller other than run
WriteBody(s) ==
    /\ pc[s] = "opened"
    /\ LET text == input_file(s)
           filename == call[s].filename
       IN  IF IsRaise(text)
           THEN /\ raised' = [raised EXCEPT ![s] = text]
                /\ pc' = [pc EXCEPT ![s] = "idle"]
                /\ UNCHANGED files
           ELSE /\ files' = [files EXCEPT
                                ![filename] = File(WriteAt0(files[filename].data, text.value))]
                /\ pc' = [pc EXCEPT ![s] =
                             IF call[s].method = "run" THEN "written" ELSE "idle"]
                /\ UNCHANGED raised
    /\ UNCHANGED <<environ, fs, explicit, sixs_path, params, aot550, visibility,
                   outputs, call, process, serialized>>

\* subprocess.Popen("%s < tmp_in.txt" % self.sixs_path, shell=True, ...)
Popen(s) ==
    /\ pc[s] = "written"
    /\ process' = [process EXCEPT ![s] = [state |-> "running"]]
    /\ pc' = [pc EXCEPT ![s] = "communicate"]
    /\ UNCHANGED <<environ, fs, explicit, sixs_path, params, aot550, visibility,
                   outputs, call, files, raised, serialized>>

\* the child: the shell opens tmp_in.txt as standard input, the program reads
\* it, prints its report and ends with some return code; the read is taken
\* as one step, at any moment between the spawn and the end of the child
ChildRuns(s, rc) ==
    /\ process[s].state = "running"
    /\ process' = [process EXCEPT ![s] =
                      [state |-> "exited", stdin |-> files[TmpIn].data,
                       stdout |-> SixSReport(files[TmpIn].data),
                       stderr |-> SixSErrors(rc), returncode |-> rc]]
    /\ UNCHANGED <<environ, fs, explicit, sixs_path, params, aot550, visibility,
                   outputs, pc, call, files, raised, serialized>>

\* whether process.communicate() can return
Terminated(p) == p.state = "exited"

\* a run that keeps the result of a child only when it returned 0
AfterChild_zero_only(p) ==
    IF p.returncode = 0 THEN Outputs(p.stdout, p.stderr) ELSE None

\* the result run attaches for a child that has ended, whatever its return code
AfterChild(p) == Outputs(p.stdout, p.stderr)

\* outputs = process.communicate(); self.outputs = Outputs(outputs[0], outputs[1])
Communicate(s) ==
    /\ pc[s] = "communicate"
    /\ Terminated(process[s])
    /\ outputs' = [outputs EXCEPT ![s] = AfterChild(process[s])]
    /\ process' = [process EXCEPT ![s] = NoProcess]
    /\ pc' = [pc EXCEPT ![s] = "idle"]
    /\ UNCHANGED <<environ, fs, explicit, sixs_path, params, aot550, visibility,
                   call, files, raised, serialized>>

----------------------------------------------------------------------------
(* Specifications *)

\* the installations the runs are checked on: 6S on the PATH or not
RunEnvironments ==
    /\ environ = [n \in {"PATH"} |-> <<"/opt/6s">>]
    /\ fs \in {[f \in AllFiles |-> "absent"],
               [f \in AllFiles |-> IF f = "/opt/6s/sixs" THEN "exec" ELSE "absent"]}

EmptyChoices == {{}, Sections} \cup {{x} : x \in Sections}

\* one scenario and its caller
Init ==
    /\ RunEnvironments
    /\ serialized = TRUE
    /\ Constructed({1}, {None, Str("/usr/local/bin/sixsV1.1")}, EmptyChoices)

Next ==
    \/ \E s \in Scenarios, v \in AotValues \cup {None} : SetAot550(s, v)
    \/ \E s \in Scenarios, v \in VisValues \cup {None} : SetVisibility(s, v)
    \/ \E s \in Scenarios, p \in AeroProfiles : SetAeroProfile(s, p)
    \/ \E s \in Scenarios, filename \in Filenames : WriteInputFileOpen(s, filename)
    \/ \E s \in Scenarios : RunOpen(s)
    \/ \E s \in Scenarios : WriteBody(s)
    \/ \E s \in Scenarios : Popen(s)
    \/ \E s \in Scenarios, rc \in ReturnCodes : ChildRuns(s, rc)
    \/ \E s \in Scenarios : Communicate(s)

Spec == Init /\ [][Next]_vars

\* two scenarios in one working directory, their callers serializing the
\* runs or not
InitShared ==
    /\ RunEnvironments
    /\ serialized \in BOOLEAN
    /\ Constructed({1, 2}, {None}, {{}})
    /\ \A s \in Scenarios : sixs_path[s] # None

NextShared ==
    \/ \E s \in Scenarios, v \in {Float(500000), None} : SetAot550(s, v)
    \/ \E s \in Scenarios, v \in VisValues \cup {None} : SetVisibility(s, v)
    \/ \E s \in Scenarios : RunOpen(s)
    \/ \E s \in Scenarios : WriteBody(s)
    \/ \E s \in Scenarios : Popen(s)
    \/ \E s \in Scenarios, rc \in ReturnCodes : ChildRuns(s, rc)
    \/ \E s \in Scenarios : Communicate(s)

SpecShared == InitShared /\ [][NextShared]_vars

\* the locator alone: SixS(path) on every installation within the bounds
PathValues == UNION {[1..n -> Dirs] : n \in 1..MaxPathLen}

InitLocator ==
    /\ environ \in {[n \in {} |-> <<>>]} \cup {[n \in {"PATH"} |-> v] : v \in PathValues}
    /\ fs \in [AllFiles -> {"absent", "file", "exec"}]
    /\ explicit \in [{1} -> {None, Str("/opt/6s/sixs")}]
    /\ sixs_path = [s \in {1} |-> Unbound]
    /\ params = [s \in {1} |-> ParamObjects(s, {})]
    /\ aot550 = [s \in {1} |-> Unbound]
    /\ visibility = [s \in {1} |-> Unbound]
    /\ outputs = [s \in {1} |-> None]
    /\ pc = [s \in {1} |-> "new"]
    /\ call = [s \in {1} |-> NoCall]
    /\ process = [s \in {1} |-> NoProcess]
    /\ raised = [s \in {1} |-> None]
    /\ files = [n \in Filenames |-> NoFile]
    /\ serialized = TRUE

NextLocator == \E s \in Scenarios : Construct(s)

SpecLocator == InitLocator /\ [][NextLocator]_vars

----------------------------------------------------------------------------
(* Properties *)

NonUser(s) == params[s].aero_profile.class # UserProfile

\* the number of lines of a text: its line breaks
RECURSIVE CountNL(_)
CountNL(text) ==
    IF text = <<>> THEN 0
    ELSE (IF Head(text) = NL THEN 1 ELSE 0) + CountNL(Tail(text))

Message == "You must set either the AOT at 550nm or the Visibility in km."

\* what Python prints for "%f" % x, for the values the scenarios take
PythonF(x) ==
    CASE x = Float(0)        -> <<"0", ".", "0", "0", "0", "0", "0", "0">>
      [] x = Float(500000)   -> <<"0", ".", "5", "0", "0", "0", "0", "0">>
      [] x = Float(23000000) -> <<"2", "3", ".", "0", "0", "0", "0", "0", "0">>

AotLines(x) == <<"0", NL>> \o PythonF(x) \o <<" ", "v", "a", "l", "u", "e", NL>>

VisLine(x) == PythonF(x) \o <<NL>>

ElevationLines ==
    <<"0", " ", "(", "t", "a", "r", "g", "e", "t", " ", "l", "e", "v", "e", "l", ")", NL>>
    \o <<"0", " ", "(", "s", "e", "n", "s", "o", "r", " ", "l", "e", "v", "e", "l", ")", NL>>

\* the AOD/visibility section the document of s must hold
ExpectedSection(s) ==
    IF ~NonUser(s) THEN <<>>
    ELSE IF aot550[s] # None THEN AotLines(aot550[s])
    ELSE VisLine(visibility[s])

\* the document of s, section by section in the required order
ExpectedDocument(s) ==
    params[s].geometry
    \o params[s].atmos_profile \o <<NL>>
    \o params[s].aero_profile.text \o <<NL>>
    \o ExpectedSection(s)
    \o ElevationLines
    \o params[s].wavelength
    \o params[s].ground_reflectance
    \o params[s].atmos_corr

\* the step of s that ends the with block of write_input_file
LeavesWithBlock(s) == pc[s] = "opened" /\ pc'[s] # "opened"

RaisedIs(v, exception) == IsRaise(v) /\ v.exception = exception

\* no explicit path and no candidate name executable in any PATH entry
NotLocatable(s) ==
    /\ explicit[s] = None
    /\ "PATH" \in DOMAIN environ
    /\ \A i \in 1..Len(Candidates), k \in 1..Len(environ["PATH"]) :
           fs[Join(environ["PATH"][k], Candidates[i])] # "exec"

\* C1: when the executable cannot be located (no explicit path, no candidate
\* on the PATH), every call of run raises ExecutionError, no child process is
\* ever spawned, and outputs is after the call what it was before: run never
\* gets past its first check.
C1_NoExecutableNoRun ==
    /\ [](\A s \in Scenarios :
            NotLocatable(s) =>
                /\ sixs_path[s] = None
                /\ pc[s] \notin {"written", "communicate"}
                /\ process[s] = NoProcess
                /\ ~(call[s].method = "run" /\ pc[s] # "idle"))
    /\ [][\A s \in Scenarios :
            (NotLocatable(s) /\ RunOpen(s)) =>
                /\ RaisedIs(raised'[s], "ExecutionError")
                /\ pc'[s] = "idle"
                /\ process' = process
                /\ outputs' = outputs]_vars

\* C1 witness: run was called on a scenario whose executable is not located
C1_Witness ==
    \E s \in Scenarios :
        /\ NotLocatable(s)
        /\ call[s].method = "run"
        /\ RaisedIs(raised[s], "ExecutionError")

\* C2: with aot550 and visibility both None and an aerosol profile that is
\* not a UserProfile, building the input document ends in a ParameterError
\* whose field is "aot550"; inside run this happens before any child is
\* spawned, and outputs is left as it was.
C2_NeitherSetParameterError ==
    /\ [](\A s \in Scenarios :
            (NonUser(s) /\ aot550[s] = None /\ visibility[s] = None /\ pc[s] # "new") =>
                /\ RaisedIs(input_file(s), "ParameterError")
                /\ input_file(s).args[1] = "aot550"
                /\ pc[s] \notin {"written", "communicate"}
                /\ process[s] = NoProcess)
    /\ [][\A s \in Scenarios :
            (LeavesWithBlock(s) /\ NonUser(s) /\ aot550[s] = None /\ visibility[s] = None) =>
                /\ RaisedIs(raised'[s], "ParameterError")
                /\ raised'[s].args = <<"aot550", Message>>
                /\ pc'[s] = "idle"
                /\ process'[s] = NoProcess
                /\ outputs'[s] = outputs[s]]_vars

\* C2 witness: a run on a located executable ended in the ParameterError
C2_Witness ==
    \E s \in Scenarios :
        /\ sixs_path[s] # None
        /\ NonUser(s) /\ aot550[s] = None /\ visibility[s] = None
        /\ call[s].method = "run" /\ pc[s] = "idle"
        /\ RaisedIs(raised[s], "ParameterError")

\* C3 as claimed: a run of a non-user scenario with aot550 and visibility
\* both set fails: it never gets a document written nor a child spawned.
C3_BothSetRunFails ==
    \A s \in Scenarios :
        (NonUser(s) /\ aot550[s] # None /\ visibility[s] # None) =>
            pc[s] \notin {"written", "communicate"}

\* C3 amended: at least one of aot550 and visibility must be set; when both
\* are set on a non-user scenario the run does not fail for it: aot550 takes
\* precedence, its two lines are the section (visibility is not rendered),
\* the document is written and the run goes on to spawn the executable.
C3_BothSetAotWins ==
    /\ [](\A s \in Scenarios :
            (NonUser(s) /\ aot550[s] # None /\ visibility[s] # None) =>
                create_aot_vis_lines(s) = Str(AotLines(aot550[s])))
    /\ [][\A s \in Scenarios :
            (LeavesWithBlock(s) /\ NonUser(s) /\ aot550[s] # None /\ visibility[s] # None) =>
                /\ raised'[s] = None
                /\ files'[call[s].filename] = File(ExpectedDocument(s))
                /\ call[s].method = "run" => pc'[s] = "written"]_vars

\* C3 witness: the child of a run with both fields set has run
C3_Witness ==
    \E s \in Scenarios :
        /\ NonUser(s) /\ aot550[s] # None /\ visibility[s] # None
        /\ pc[s] = "communicate"
        /\ process[s].state = "exited"
        /\ process[s].stdin = ExpectedDocument(s)

\* C4 as claimed: with a UserProfile, whatever aot550 and visibility are,
\* write_input_file completes and the file holds the document without an
\* AOD/visibility section, the elevation lines right after the aerosol lines.
C4_UserProfileWritten ==
    [][\A s \in Scenarios :
        (LeavesWithBlock(s) /\ ~NonUser(s)) =>
            /\ ~IsRaise(raised'[s])
            /\ files'[call[s].filename] = File(ExpectedDocument(s))]_vars

\* C5 as claimed: with exactly one of aot550 and visibility set on a non-user
\* scenario the document is built and the AOD/visibility section is exactly
\* one line, for the aot550 case and for the visibility case.
C5_SectionIsOneLine ==
    \A s \in Scenarios :
        (NonUser(s) /\ pc[s] # "new" /\ (aot550[s] = None) # (visibility[s] = None)) =>
            /\ ~IsRaise(input_file(s))
            /\ CountNL(create_aot_vis_lines(s).value) = 1

\* C5 amended: with exactly one of aot550 and visibility set on a non-user
\* scenario the document is built, and the AOD/visibility section is the two
\* lines "0" and "<aot550 as %f> value" when aot550 is the field set, and the
\* one line "<visibility as %f>" when visibility is.
C5_SectionByField ==
    /\ [](\A s \in Scenarios :
            (NonUser(s) /\ pc[s] # "new" /\ (aot550[s] = None) # (visibility[s] = None)) =>
                /\ ~IsRaise(input_file(s))
                /\ input_file(s).value = ExpectedDocument(s)
                /\ create_aot_vis_lines(s) =
                       Str(IF aot550[s] # None THEN AotLines(aot550[s])
                           ELSE VisLine(visibility[s]))
                /\ CountNL(create_aot_vis_lines(s).value) =
                       IF aot550[s] # None THEN 2 ELSE 1)
    /\ [][\A s \in Scenarios :
            (LeavesWithBlock(s) /\ NonUser(s) /\ (aot550[s] = None) # (visibility[s] = None)) =>
                /\ raised'[s] = None
                /\ files'[call[s].filename] = File(ExpectedDocument(s))]_vars

\* C5 witness: a document with the one-line visibility section is on disk
C5_Witness ==
    \E s \in Scenarios :
        /\ NonUser(s) /\ aot550[s] = None /\ visibility[s] # None
        /\ pc[s] = "written"
        /\ files[TmpIn] = File(ExpectedDocument(s))

\* C6: every document write_input_file writes is, in this order and with
\* nothing left out or repeated: geometry, atmosphere and a line break, aerosol
\* and a line break, the AOD/visibility section, the two elevation lines,
\* wavelength, ground reflectance, atmospheric correction; also when some of
\* the sections render to the empty string.
C6_SectionOrder ==
    [][\A s \in Scenarios :
        (LeavesWithBlock(s) /\ ~IsRaise(raised'[s])) =>
            files'[call[s].filename] = File(ExpectedDocument(s))]_vars

\* C6 witness: a document with an empty section (the wavelength renders to
\* "") and non-empty ones after it has been written
C6_Witness ==
    \E s \in Scenarios :
        /\ pc[s] = "written"
        /\ params[s].wavelength = <<>>
        /\ params[s].ground_reflectance # <<>>
        /\ files[TmpIn] = File(ExpectedDocument(s))

\* the (name, PATH entry) pairs that exist and are executable
LocatorHits ==
    {h \in (1..Len(Candidates)) \X (1..Len(environ["PATH"])) :
        fs[Join(environ["PATH"][h[2]], Candidates[h[1]])] = "exec"}

\* h comes first when the names are walked first and the entries second
FirstByName(h) ==
    \A g \in LocatorHits : h[1] < g[1] \/ (h[1] = g[1] /\ h[2] <= g[2])

C8_RunAttachesResult ==
    /\ [](\A s \in Scenarios :
            pc[s] \in {"written", "communicate"} =>
                /\ call[s].method = "run"
                /\ files[TmpIn] = File(ExpectedDocument(s))
                /\ process[s].state = "exited" =>
                       /\ process[s].stdin = ExpectedDocument(s)
                       /\ process[s].stdout = SixSReport(ExpectedDocument(s)))
    /\ [][\A s \in Scenarios :
            /\ (process[s].state = "none" /\ process'[s].state # "none") =>
                   pc[s] = "written" /\ files[TmpIn] = File(ExpectedDocument(s))
            /\ (pc[s] = "communicate" /\ pc'[s] # "communicate") =>
                   /\ process[s].state = "exited"
                   /\ outputs'[s] = Outputs(process[s].stdout, process[s].stderr)
                   /\ pc'[s] = "idle"
                   /\ raised'[s] = None
            /\ outputs'[s] # outputs[s] => pc[s] = "communicate"]_vars

\* C8 witness: the result of a child that returned non-zero has replaced the
\* result of an earlier run
C8_Witness ==
    \E s \in Scenarios :
        /\ pc[s] = "communicate"
        /\ process[s].state = "exited"
        /\ process[s].returncode # 0
        /\ outputs[s] # None
        /\ outputs[s] # Outputs(process[s].stdout, process[s].stderr)

\* the report is of a document that begins with the geometry of scenario s
ReportOf(s, stdout) ==
    /\ Len(stdout) >= 2 + Len(params[s].geometry)
    /\ SubSeq(stdout, 3, 2 + Len(params[s].geometry)) = params[s].geometry

\* C9: runs sharing a working directory share tmp_in.txt without a lock:
\* interleaved, the child of one scenario can read the document of the other
\* or the file the other has just truncated, and the result attached is
\* computed from that; serialized runs never do: each child reads the
\* document of its own scenario and each result is computed from it.
C9_SerializedRunsIsolated ==
    /\ [](serialized =>
            \A s \in Scenarios :
                /\ process[s].state = "exited" => process[s].stdin = ExpectedDocument(s)
                /\ outputs[s] # None => ReportOf(s, outputs[s].stdout))
    /\ [][serialized =>
            \A s \in Scenarios :
                (pc[s] = "communicate" /\ pc'[s] = "idle") =>
                    outputs'[s] = Outputs(SixSReport(ExpectedDocument(s)), process[s].stderr)]_vars

\* C9 witness: without serialization, the result of scenario 1 is computed
\* from the document of scenario 2 and the result of scenario 2 from the
\* truncated file
C9_Witness ==
    /\ ~serialized
    /\ outputs[1] # None /\ outputs[2] # None
    /\ ReportOf(2, outputs[1].stdout)
    /\ outputs[2].stdout = SixSReport(<<>>)

\* C10: write_input_file opens the file before it builds the first section:
\* after a run that failed with a ParameterError tmp_in.txt exists and is
\* empty, the document of an earlier run is gone; a run that fails with an
\* ExecutionError leaves the files as they were.
C10_FailedRunTruncates ==
    /\ [](\A s \in Scenarios :
            (pc[s] = "idle" /\ call[s].method = "run" /\ RaisedIs(raised[s], "ParameterError")) =>
                files[TmpIn] = File(<<>>))
    /\ [][\A s \in Scenarios :
            /\ (pc[s] = "idle" /\ pc'[s] = "opened") =>
                   files'[call'[s].filename] = File(<<>>)
            /\ (LeavesWithBlock(s) /\ IsRaise(raised'[s])) => files' = files
            /\ (pc[s] = "idle" /\ RaisedIs(raised'[s], "ExecutionError")) => files' = files]_vars

\* C10 witness: a run that failed with the ParameterError after a run that
\* had succeeded: the result of the first is there, its document is not
C10_Witness ==
    \E s \in Scenarios :
        /\ pc[s] = "idle" /\ call[s].method = "run"
        /\ RaisedIs(raised[s], "ParameterError")
        /\ outputs[s] # None
        /\ files[TmpIn] = File(<<>>)

====
